---- MODULE Spec2Model ----
(***************************************************************************)
(* A model of the account-configuration resolver (lib/account-config.ts)   *)
(* and of the master-key gate (masterKeyAuth in start.ts).                 *)
(*                                                                         *)
(* JavaScript strings are sequences of one-character strings.  A nullable  *)
(* value is a sequence of length 0 (null / undefined) or 1.                *)
(***************************************************************************)
EXTENDS Naturals, Integers, Sequences, FiniteSets, TLC

VARIABLES
    files,          \* the filesystem: path -> content of the file there
    environ,        \* process.env: variable name -> nullable string
    cachedConfig,   \* account-config.ts: let cachedConfig (nullable AccountsConfig)
    ret,            \* what the last getAccountsConfig() call returned or threw
    step,           \* the last operation, and whether it read file and environment
    observed,       \* the AccountsConfig values returned since the last reset
    parses,         \* successful read-and-parse runs since the last reset
    state,          \* lib/state: accountId and githubToken chosen by the caller
    pc,             \* position of runServer and of checkUsage.run
    configuredKey,  \* masterKeyAuth: the gate's captured key (nullable: no gate yet)
    request,        \* the last request handed to the gate
    response        \* the gate's answer to it

vars == <<files, environ, cachedConfig, ret, step, observed, parses, state, pc,
          configuredKey, request, response>>

----------------------------------------------------------------------------
(* Bounds of the model *)

MaxAccounts == 2

MaxCredLen == 4

----------------------------------------------------------------------------
(* Strings *)

Null == <<>>

Some(x) == <<x>>

\* \w of the regular expression: letters, digits and underscore
WordChars ==
    {"A", "B", "C", "E", "F", "G", "I", "K", "M", "N", "O", "R", "S", "T", "U",
     "Y", "_", "a", "b", "s", "t", "v", "w"}

WhiteSpace == {" "}

RECURSIVE TrimStart(_)
TrimStart(s) ==
    IF s # <<>> /\ Head(s) \in WhiteSpace THEN TrimStart(Tail(s)) ELSE s

RECURSIVE TrimEnd(_)
TrimEnd(s) ==
    IF s # <<>> /\ s[Len(s)] \in WhiteSpace
    THEN TrimEnd(SubSeq(s, 1, Len(s) - 1))
    ELSE s

\* String.prototype.trim
Trim(s) == TrimEnd(TrimStart(s))

\* String.prototype.startsWith
StartsWith(s, prefix) ==
    /\ Len(s) >= Len(prefix)
    /\ SubSeq(s, 1, Len(prefix)) = prefix

\* String.prototype.slice(n)
Slice(s, n) == SubSeq(s, n + 1, Len(s))

\* all strings over alphabet of length at most n
RECURSIVE StringsUpTo(_, _)
StringsUpTo(alphabet, n) ==
    IF n = 0 THEN {<<>>}
    ELSE LET shorter == StringsUpTo(alphabet, n - 1)
         IN  shorter \cup {<<c>> \o s : c \in alphabet, s \in shorter}

----------------------------------------------------------------------------
(* process.env *)

ACCOUNTS_CONFIG ==
    <<"A", "C", "C", "O", "U", "N", "T", "S", "_", "C", "O", "N", "F", "I", "G">>

MASTER_KEY == <<"M", "A", "S", "T", "E", "R", "_", "K", "E", "Y">>

VarA == <<"A">>

VarB == <<"B">>

EnvNames == {ACCOUNTS_CONFIG, MASTER_KEY, VarA, VarB}

\* process.env[name]: undefined for a variable that is not set
Getenv(env, name) == IF name \in DOMAIN env THEN env[name] ELSE Null

EmptyEnv == [n \in EnvNames |-> Null]

----------------------------------------------------------------------------
(* Values of the parsed document *)

JsString(s) == [type |-> "string", chars |-> s]

JsOther == [type |-> "other", chars |-> <<>>]

Entry(id, token) == [type |-> "object", id |-> id, github_token |-> token]

NonObjectEntry == [type |-> "other", id |-> JsOther, github_token |-> JsOther]

AccountsArray(items) == [type |-> "array", items |-> items]

AccountsMissing == [type |-> "undefined", items |-> <<>>]

AccountsScalar == [type |-> "scalar", items |-> <<>>]

Document(accountsValue) == [kind |-> "document", accounts |-> accountsValue]

AbsentFile == [kind |-> "absent", accounts |-> AccountsMissing]

MalformedFile == [kind |-> "malformed", accounts |-> AccountsMissing]

EmptyFile == [kind |-> "empty", accounts |-> AccountsMissing]

----------------------------------------------------------------------------
(* Results: a returned value or a thrown error *)

Error(kind, index, account, variable) ==
    [kind |-> kind, index |-> index, account |-> account, variable |-> variable]

Return(v) == [ok |-> TRUE, value |-> Some(v), error |-> Null]

Throw(e) == [ok |-> FALSE, value |-> Null, error |-> Some(e)]

NoReturn == [ok |-> FALSE, value |-> Null, error |-> Null]

----------------------------------------------------------------------------
(* resolveEnvReferences *)

\* the length of the run of word characters of s that starts at position i
RECURSIVE WordRun(_, _)
WordRun(s, i) ==
    IF i <= Len(s) /\ s[i] \in WordChars THEN 1 + WordRun(s, i + 1) ELSE 0

\* one attempt of the regular expression at a "$" at position i of s, given the
\* runs of word characters after "${" and after "$"
MatchReference(s, i, braced, bare) ==
    IF /\ i + 1 <= Len(s)
       /\ s[i + 1] = "{"
       /\ braced >= 1
       /\ i + 2 + braced <= Len(s)
       /\ s[i + 2 + braced] = "}"
    THEN [found |-> TRUE, name |-> SubSeq(s, i + 2, i + 1 + braced), len |-> braced + 3]
    ELSE IF bare >= 1
    THEN [found |-> TRUE, name |-> SubSeq(s, i + 1, i + bare), len |-> bare + 1]
    ELSE [found |-> FALSE, name |-> <<>>, len |-> 0]

\* ENV_REF_REGEX tried at position i of s: \$(?:\{(\w+)\}|(\w+))
ENV_REF_REGEX(s, i) ==
    IF s[i] # "$" THEN [found |-> FALSE, name |-> <<>>, len |-> 0]
    ELSE MatchReference(s, i, WordRun(s, i + 2), WordRun(s, i + 1))

\* text followed by the replacement of the rest, unless that threw
Prepend(text, rest) == IF rest.ok THEN [rest EXCEPT !.text = text \o @] ELSE rest

\* the callback of replaceAll for the variable variableName holding envValue:
\* the text to insert, or the variable when it is unset or empty
Callback_EmptyIsSet(variableName, envValue) ==
    IF variableName = <<>>
    THEN [ok |-> TRUE, text |-> <<>>, variable |-> <<>>]
    ELSE IF envValue = Null
    THEN [ok |-> FALSE, text |-> <<>>, variable |-> variableName]
    ELSE [ok |-> TRUE, text |-> envValue[1], variable |-> <<>>]

Callback(variableName, envValue) ==
    IF variableName = <<>>
    THEN [ok |-> TRUE, text |-> <<>>, variable |-> <<>>]
    ELSE IF envValue = Null \/ envValue[1] = <<>>
    THEN [ok |-> FALSE, text |-> <<>>, variable |-> variableName]
    ELSE [ok |-> TRUE, text |-> envValue[1], variable |-> <<>>]

\* value.replaceAll(ENV_REF_REGEX, callback) from position i on: the text, or
\* the variable whose lookup made the callback throw
RECURSIVE ReplaceAllFrom(_, _, _)
ReplaceMatch_FirstOnly(value, i, env, m, inserted) ==
    IF ~m.found THEN Prepend(<<value[i]>>, ReplaceAllFrom(value, i + 1, env))
    ELSE IF ~inserted.ok THEN inserted
    ELSE [ok |-> TRUE, text |-> inserted.text \o SubSeq(value, i + m.len, Len(value)),
          variable |-> <<>>]

ReplaceMatch(value, i, env, m, inserted) ==
    IF ~m.found THEN Prepend(<<value[i]>>, ReplaceAllFrom(value, i + 1, env))
    ELSE IF ~inserted.ok THEN inserted
    ELSE Prepend(inserted.text, ReplaceAllFrom(value, i + m.len, env))

ReplaceAt(value, i, env, m) ==
    ReplaceMatch(value, i, env, m, Callback(Trim(m.name), Getenv(env, Trim(m.name))))

ReplaceAllFrom(value, i, env) ==
    IF i > Len(value) THEN [ok |-> TRUE, text |-> <<>>, variable |-> <<>>]
    ELSE ReplaceAt(value, i, env, ENV_REF_REGEX(value, i))

EnvResult(r, accountId) ==
    IF r.ok THEN Return(r.text)
    ELSE Throw(Error("EnvVarMissing", -1, accountId, r.variable))

resolveEnvReferences(value, accountId, env) ==
    EnvResult(ReplaceAllFrom(value, 1, env), accountId)

----------------------------------------------------------------------------
(* normalizeAccount, parseConfig, readConfigFile *)

AccountResult(id, token) ==
    IF token.ok THEN Return([id |-> id, githubToken |-> token.value[1]]) ELSE token

\* index is the entry's 0-based position, as in the error messages
normalizeAccount(account, index, env) ==
    IF account.type # "object"
    THEN Throw(Error("EntryNotObject", index, <<>>, <<>>))
    ELSE IF account.id.type # "string" \/ Trim(account.id.chars) = <<>>
    THEN Throw(Error("EntryIdMissing", index, <<>>, <<>>))
    ELSE IF \/ account.github_token.type # "string"
            \/ Trim(account.github_token.chars) = <<>>
    THEN Throw(Error("EntryTokenMissing", -1, account.id.chars, <<>>))
    ELSE AccountResult(account.id.chars,
                       resolveEnvReferences(account.github_token.chars,
                                            account.id.chars, env))

\* the outcome of a map whose callbacks gave each: the first throw ends the map
FirstThrow(each) ==
    LET failed == {i \in DOMAIN each : ~each[i].ok}
    IN  IF failed # {} THEN each[CHOOSE i \in failed : \A j \in failed : i <= j]
        ELSE Return([i \in DOMAIN each |-> each[i].value[1]])

\* accountsValue.map((account, index) => normalizeAccount(account, index, sourcePath))
MapAccounts(items, env) ==
    FirstThrow([i \in 1..Len(items) |-> normalizeAccount(items[i], i - 1, env)])

AccountsConfig_LastIsDefault(accounts) ==
    IF ~accounts.ok THEN accounts
    ELSE Return([accounts |-> accounts.value[1],
                 defaultAccountId |-> accounts.value[1][Len(accounts.value[1])].id])

AccountsConfig(accounts) ==
    IF ~accounts.ok THEN accounts
    ELSE Return([accounts |-> accounts.value[1],
                 defaultAccountId |-> accounts.value[1][1].id])

\* the YAML parser: parse(raw) ?? {}
YamlParse(raw) == IF raw.kind = "empty" THEN Document(AccountsMissing) ELSE raw

ValidateDocument(accountsValue, env) ==
    IF accountsValue.type # "array" \/ Len(accountsValue.items) = 0
    THEN Throw(Error("NoAccounts", -1, <<>>, <<>>))
    ELSE AccountsConfig(MapAccounts(accountsValue.items, env))

\* raw is the text of the file
parseConfig(raw, env) ==
    IF raw.kind = "malformed"
    THEN Throw(Error("ParseFailed", -1, <<>>, <<>>))
    ELSE ValidateDocument(YamlParse(raw).accounts, env)

readConfigFile(fs, configPath) ==
    IF configPath \notin DOMAIN fs \/ fs[configPath].kind = "absent"
    THEN Throw(Error("NotFound", -1, <<>>, <<>>))
    ELSE Return(fs[configPath])

----------------------------------------------------------------------------
(* Paths *)

Cwd == <<"/", "w">>

\* path.join(process.cwd(), "config.yaml"); the file name is shortened to "c"
DEFAULT_CONFIG_PATH == Cwd \o <<"/", "c">>

AltPath == <<"/", "a">>

\* path.resolve of a path without "." or ".." segments
PathResolve(p) == IF p # <<>> /\ p[1] = "/" THEN p ELSE Cwd \o <<"/">> \o p

ConfigPath(env) ==
    LET override == Getenv(env, ACCOUNTS_CONFIG)
    IN  IF override # Null /\ override[1] # <<>> /\ Len(Trim(override[1])) > 0
        THEN PathResolve(override[1])
        ELSE DEFAULT_CONFIG_PATH

----------------------------------------------------------------------------
(* getAccountsConfig, resetAccountsConfigCache *)

Publish_NoStore(cache, parsed) == [result |-> parsed, cache |-> cache, read |-> TRUE]

Publish_StoresFailure(cache, parsed) ==
    [result |-> parsed,
     cache |-> IF parsed.ok THEN parsed.value
               ELSE Some([accounts |-> <<>>, defaultAccountId |-> <<>>]),
     read |-> TRUE]

\* cachedConfig = parsed; return parsed (a throw leaves the cache alone)
Publish(cache, parsed) ==
    [result |-> parsed, cache |-> IF parsed.ok THEN parsed.value ELSE cache,
     read |-> TRUE]

ParseContents(contents, env) ==
    IF ~contents.ok THEN contents ELSE parseConfig(contents.value[1], env)

getAccountsConfig_IgnoresCache(cache, fs, env) ==
    Publish(cache, ParseContents(readConfigFile(fs, ConfigPath(env)), env))

\* what a call returns or throws, the cache after it, whether it read the source
getAccountsConfig(cache, fs, env) ==
    IF cache # Null
    THEN [result |-> Return(cache[1]), cache |-> cache, read |-> FALSE]
    ELSE Publish(cache, ParseContents(readConfigFile(fs, ConfigPath(env)), env))

Step(op, read) == [op |-> op, read |-> read]

gateVars == <<configuredKey, request, response>>

\* the history one synchronous call of getAccountsConfig() leaves
Called(call) ==
    /\ cachedConfig' = call.cache
    /\ ret' = call.result
    /\ step' = Step("resolve", call.read)
    /\ observed' = IF call.result.ok
                   THEN observed \cup {call.result.value[1]}
                   ELSE observed
    /\ parses' = IF call.result.ok /\ call.read /\ parses < 2
                 THEN parses + 1
                 ELSE parses
    /\ UNCHANGED <<files, environ>>

resetAccountsConfigCache ==
    /\ cachedConfig' = Null
    /\ step' = Step("reset", FALSE)
    /\ observed' = {}
    /\ parses' = 0
    /\ UNCHANGED <<files, environ, ret, state, pc, gateVars>>

----------------------------------------------------------------------------
(* The callers: runServer (start.ts) and checkUsage.run (check-usage.ts) *)

\* accounts.find((account) => account.id === id): the first match, or Null
Find(accounts, id) ==
    LET hits == {i \in 1..Len(accounts) : accounts[i].id = id}
    IN  IF hits = {} THEN Null
        ELSE Some(accounts[CHOOSE i \in hits : \A j \in hits : i <= j])

UseAccount(account) ==
    [accountId |-> Some(account.id), githubToken |-> Some(account.githubToken)]

\* found ?? accountsConfig.accounts[0]
OrFirst(found, accounts) == IF found # Null THEN found[1] ELSE accounts[1]

DefaultAccount(accountsConfig) ==
    OrFirst(Find(accountsConfig.accounts, accountsConfig.defaultAccountId),
            accountsConfig.accounts)

\* runServer from its call of getAccountsConfig to its next await; a throw
\* rejects the promise
RunServerWith(call) ==
    /\ Called(call)
    /\ IF call.result.ok /\ Len(call.result.value[1].accounts) # 0
       THEN /\ state' = UseAccount(DefaultAccount(call.result.value[1]))
            /\ pc' = [pc EXCEPT !.runServer = "awaiting"]
       ELSE UNCHANGED <<state, pc>>
    /\ UNCHANGED gateVars

RunServer ==
    /\ pc.runServer = "idle"
    /\ RunServerWith(getAccountsConfig(cachedConfig, files, environ))

\* the awaited startup work ends and the server is served
RunServerServe ==
    /\ pc.runServer = "awaiting"
    /\ pc' = [pc EXCEPT !.runServer = "idle"]
    /\ step' = Step("other", FALSE)
    /\ UNCHANGED <<files, environ, cachedConfig, ret, observed, parses, state, gateVars>>

\* checkUsage.run reaches await ensurePaths()
CheckUsageBegin ==
    /\ pc.checkUsage = "idle"
    /\ pc' = [pc EXCEPT !.checkUsage = "awaiting"]
    /\ step' = Step("other", FALSE)
    /\ UNCHANGED <<files, environ, cachedConfig, ret, observed, parses, state, gateVars>>

CheckUsageWith(call) ==
    /\ Called(call)
    /\ state' = IF call.result.ok /\ Len(call.result.value[1].accounts) # 0
                THEN UseAccount(call.result.value[1].accounts[1])
                ELSE state
    /\ pc' = [pc EXCEPT !.checkUsage = "idle"]
    /\ UNCHANGED gateVars

\* checkUsage.run after ensurePaths(), up to its next await
CheckUsageResume ==
    /\ pc.checkUsage = "awaiting"
    /\ CheckUsageWith(getAccountsConfig(cachedConfig, files, environ))

----------------------------------------------------------------------------
(* The surroundings: the config file and the environment change *)

OneAccount(id, token) == Document(AccountsArray(<<Entry(JsString(id), JsString(token))>>))

SampleFiles ==
    {AbsentFile, MalformedFile,
     OneAccount(<<"a">>, <<"$", "A">>),
     Document(AccountsArray(<<Entry(JsString(<<"b">>), JsString(<<"t">>)),
                              Entry(JsString(<<"a">>), JsString(<<"t">>))>>))}

Paths == {DEFAULT_CONFIG_PATH, AltPath}

SampleSettings ==
    ({ACCOUNTS_CONFIG} \X {Null, Some(<<" ">>), Some(AltPath)})
    \cup ({VarA} \X {Null, Some(<<>>), Some(<<"v">>)})

WriteFile(path, contents) ==
    /\ files' = [files EXCEPT ![path] = contents]
    /\ step' = Step("other", FALSE)
    /\ UNCHANGED <<environ, cachedConfig, ret, observed, parses, state, pc, gateVars>>

SetEnv(name, value) ==
    /\ environ' = [environ EXCEPT ![name] = value]
    /\ step' = Step("other", FALSE)
    /\ UNCHANGED <<files, cachedConfig, ret, observed, parses, state, pc, gateVars>>

----------------------------------------------------------------------------
(* masterKeyAuth (start.ts) *)

UpperCase ==
    <<"A", "B", "C", "D", "E", "F", "G", "H", "I", "J", "K", "L", "M", "N", "O",
      "P", "Q", "R", "S", "T", "U", "V", "W", "X", "Y", "Z">>

LowerCase ==
    <<"a", "b", "c", "d", "e", "f", "g", "h", "i", "j", "k", "l", "m", "n", "o",
      "p", "q", "r", "s", "t", "u", "v", "w", "x", "y", "z">>

ToLowerChar(c) ==
    IF \E k \in 1..Len(UpperCase) : UpperCase[k] = c
    THEN LowerCase[CHOOSE k \in 1..Len(UpperCase) : UpperCase[k] = c]
    ELSE c

\* String.prototype.toLowerCase
ToLowerCase(s) == [k \in 1..Len(s) |-> ToLowerChar(s[k])]

BEARER_PREFIX == <<"b", "e", "a", "r", "e", "r", " ">>

Message == "Invalid or missing Authorization header"

AnthropicBody ==
    [type |-> Some("error"),
     error |-> [type |-> "authentication_error", message |-> Message]]

OpenAIBody ==
    [type |-> Null, error |-> [type |-> "invalid_api_key", message |-> Message]]

\* what the route behind the gate answers
DownstreamBody == [type |-> Null, error |-> [type |-> "", message |-> "ok"]]

Json(body, status) == [status |-> status, body |-> body, next |-> FALSE]

Downstream == [status |-> 200, body |-> DownstreamBody, next |-> TRUE]

\* (process.env.MASTER_KEY ?? "").trim()
ConfiguredKey_Untrimmed(env) ==
    IF Getenv(env, MASTER_KEY) = Null THEN <<>> ELSE Getenv(env, MASTER_KEY)[1]

ConfiguredKey(env) ==
    IF Getenv(env, MASTER_KEY) = Null THEN <<>> ELSE Trim(Getenv(env, MASTER_KEY)[1])

\* the bearer token of a header value, or Null for undefined
Candidate_CaseSensitive(headerValue) ==
    IF StartsWith(headerValue, <<"B", "e", "a", "r", "e", "r", " ">>)
    THEN Some(Trim(Slice(headerValue, Len(BEARER_PREFIX))))
    ELSE Null

Candidate(headerValue) ==
    IF StartsWith(ToLowerCase(headerValue), BEARER_PREFIX)
    THEN Some(Trim(Slice(headerValue, Len(BEARER_PREFIX))))
    ELSE Null

V1Messages == <<"/", "v", "1", "/", "m", "e", "s", "s", "a", "g", "e", "s">>

\* the 401 of a rejected request
Reject_ExactPath(path) ==
    IF path = V1Messages THEN Json(AnthropicBody, 401) ELSE Json(OpenAIBody, 401)

Reject(path) ==
    IF StartsWith(path, V1Messages)
    THEN Json(AnthropicBody, 401)
    ELSE Json(OpenAIBody, 401)

\* c.req.header(AUTH_HEADER) ?? ""
HeaderValue(req) == IF req.header = Null THEN <<>> ELSE req.header[1]

\* the middleware masterKeyAuth() returned, applied to one request
Middleware(key, req) ==
    IF key = <<>> THEN Downstream
    ELSE IF Candidate(HeaderValue(req)) # Some(key) THEN Reject(req.path)
    ELSE Downstream

\* masterKeyAuth(): the key is read once; from is the variable's value then
masterKeyAuth ==
    /\ configuredKey' = Some([key |-> ConfiguredKey(environ),
                              from |-> Getenv(environ, MASTER_KEY)])
    /\ step' = Step("configure", FALSE)
    /\ UNCHANGED <<files, environ, cachedConfig, ret, observed, parses, state, pc,
                   request, response>>

Handle(req) ==
    /\ configuredKey # Null
    /\ request' = req
    /\ response' = Middleware(configuredKey[1].key, req)
    /\ step' = Step("request", FALSE)
    /\ UNCHANGED <<files, environ, cachedConfig, ret, observed, parses, state, pc,
                   configuredKey>>

MasterKeys == {Null, Some(<<>>), Some(<<" ">>), Some(<<"s">>), Some(<<" ", "s", " ">>)}

Schemes ==
    {<<>>, <<"B", "e", "a", "r", "e", "r", " ">>, <<"b", "E", "A", "R", "E", "R", " ">>,
     <<"B", "e", "a", "r", "e", "r">>, <<"B", "a", "s", "i", "c", " ">>}

Tokens == {<<>>, <<"s">>, <<"S">>, <<"w">>, <<" ", "s", " ">>}

Headers == {Null} \cup {Some(scheme \o token) : scheme \in Schemes, token \in Tokens}

RequestPaths ==
    {V1Messages, V1Messages \o <<"/", "c">>,
     <<"/", "v", "1", "/", "m", "e", "s", "s", "a", "g", "e">>,
     <<"/", "v", "1", "/", "r", "e", "s", "p", "o", "n", "s", "e", "s">>}

Requests ==
    {[path |-> path, header |-> header, method |-> method] :
        path \in RequestPaths, header \in Headers, method \in {"GET", "POST"}}

----------------------------------------------------------------------------
(* The resolver in its process *)

NoRequest == [path |-> <<>>, header |-> Null, method |-> "GET"]

NoResponse == [status |-> 0, body |-> DownstreamBody, next |-> FALSE]

InitResolver ==
    /\ cachedConfig = Null
    /\ ret = NoReturn
    /\ step = Step("init", FALSE)
    /\ observed = {}
    /\ parses = 0
    /\ state = [accountId |-> Null, githubToken |-> Null]
    /\ pc = [runServer |-> "idle", checkUsage |-> "idle"]

InitGate ==
    /\ configuredKey = Null
    /\ request = NoRequest
    /\ response = NoResponse

Init ==
    /\ files = [p \in Paths |-> AbsentFile]
    /\ environ = EmptyEnv
    /\ InitResolver
    /\ InitGate

Next ==
    \/ RunServer
    \/ RunServerServe
    \/ CheckUsageBegin
    \/ CheckUsageResume
    \/ resetAccountsConfigCache
    \/ \E path \in Paths, contents \in SampleFiles : WriteFile(path, contents)
    \/ \E setting \in SampleSettings : SetEnv(setting[1], setting[2])

Spec == Init /\ [][Next]_vars

NextGate ==
    \/ \E value \in MasterKeys : SetEnv(MASTER_KEY, value)
    \/ masterKeyAuth
    \/ \E req \in Requests : Handle(req)

SpecGate == Init /\ [][NextGate]_vars

----------------------------------------------------------------------------
(* One resolution of every document and environment within the bounds *)

SmallIds == {JsOther, JsString(<<" ">>), JsString(<<"a">>), JsString(<<"b">>)}

SmallTokens ==
    {JsOther, JsString(<<" ">>), JsString(<<"t">>), JsString(<<"$", "A">>),
     JsString(<<"$", "{", "B", "}">>)}

SmallEntries == {NonObjectEntry} \cup {Entry(id, token) : id \in SmallIds, token \in SmallTokens}

SmallDocs ==
    {AbsentFile, MalformedFile, EmptyFile, Document(AccountsMissing),
     Document(AccountsScalar)}
    \cup {Document(AccountsArray(items)) :
            items \in UNION {[1..n -> SmallEntries] : n \in 0..MaxAccounts}}

CredAlphabet == {"$", "{", "}", "A", "B"}

CredDocs == {OneAccount(<<"a">>, token) : token \in StringsUpTo(CredAlphabet, MaxCredLen)}

EnvValues == {Null, Some(<<>>), Some(<<"v">>), Some(<<"$", "B">>)}

InitParse ==
    /\ \E contents \in SmallDocs \cup CredDocs :
          files = [p \in Paths |-> IF p = DEFAULT_CONFIG_PATH THEN contents ELSE AbsentFile]
    /\ \E a \in EnvValues, b \in EnvValues :
          environ = [EmptyEnv EXCEPT ![VarA] = a, ![VarB] = b]
    /\ InitResolver
    /\ InitGate

NextParse == RunServer

SpecParse == InitParse /\ [][NextParse]_vars

----------------------------------------------------------------------------
(* Vocabulary of the properties *)

\* a getAccountsConfig() call has just returned an AccountsConfig
Resolved == step.op = "resolve" /\ ret.ok

\* a getAccountsConfig() call has just thrown
Failed == step.op = "resolve" /\ ~ret.ok

\* the document the source declares, and its entries
Declared == files[ConfigPath(environ)]

DeclaredItems == Declared.accounts.items

IsString(v) == v.type = "string"

NonBlank(v) == IsString(v) /\ \E k \in 1..Len(v.chars) : v.chars[k] \notin WhiteSpace

ValidEntry(e) == e.type = "object" /\ NonBlank(e.id) /\ NonBlank(e.github_token)

\* a well-formed document: a non-empty sequence of valid entries
WellFormed ==
    /\ Declared.kind = "document"
    /\ Declared.accounts.type = "array"
    /\ Len(DeclaredItems) >= 1
    /\ \A i \in 1..Len(DeclaredItems) : ValidEntry(DeclaredItems[i])

\* the names a credential refers to, left to right
RECURSIVE References(_, _)
References(s, i) ==
    IF i > Len(s) THEN <<>>
    ELSE LET m == ENV_REF_REGEX(s, i)
         IN  IF m.found THEN <<m.name>> \o References(s, i + m.len)
             ELSE References(s, i + 1)

IsSet(name) == Getenv(environ, name) # Null /\ Getenv(environ, name)[1] # <<>>

\* the credential with each reference replaced by its variable's value
RECURSIVE Substituted(_, _)
Substituted(s, i) ==
    IF i > Len(s) THEN <<>>
    ELSE LET m == ENV_REF_REGEX(s, i)
         IN  IF m.found THEN Getenv(environ, m.name)[1] \o Substituted(s, i + m.len)
             ELSE <<s[i]>> \o Substituted(s, i + 1)

RawCredential(i) == DeclaredItems[i].github_token.chars

Missing(i) == {k \in 1..Len(References(RawCredential(i), 1)) :
                  ~IsSet(References(RawCredential(i), 1)[k])}

HasMarker(s) == \E i \in 1..Len(s) : ENV_REF_REGEX(s, i).found

----------------------------------------------------------------------------
(* Properties of one resolution (SpecParse) *)

ReturnedAccounts == ret.value[1].accounts

\* C2: for a well-formed document of N >= 1 valid entries, a successful resolve
\* returns exactly N accounts, the i-th with the id of the i-th declared entry,
\* and defaultAccountId is the id of the first declared entry.
C2_DeclarationOrder ==
    (Resolved /\ WellFormed) =>
        /\ Len(ReturnedAccounts) = Len(DeclaredItems)
        /\ \A i \in 1..Len(DeclaredItems) :
              ReturnedAccounts[i].id = DeclaredItems[i].id.chars
        /\ ret.value[1].defaultAccountId = DeclaredItems[1].id.chars

C2_Witness ==
    /\ Resolved
    /\ WellFormed
    /\ Len(DeclaredItems) = 2
    /\ DeclaredItems[1].id.chars = <<"b">>
    /\ DeclaredItems[2].id.chars = <<"a">>

\* the entries of a well-formed document that refer to an unset or empty variable
Lacking == {i \in 1..Len(DeclaredItems) : Missing(i) # {}}

FirstOf(S) == CHOOSE i \in S : \A j \in S : i <= j

\* C3, first part: when every referenced variable is set and non-empty, each
\* credential is returned with every ${X} and $X replaced, left to right, by the
\* value of X; a credential without references is returned unchanged.
C3_Substitutes ==
    (step.op = "resolve" /\ WellFormed /\ Lacking = {}) =>
        /\ ret.ok
        /\ \A i \in 1..Len(DeclaredItems) :
              ReturnedAccounts[i].githubToken = Substituted(RawCredential(i), 1)

\* C3 as stated: whichever referenced variable X of whichever account is unset
\* or empty, the resolve fails with an error naming X and that account's id.
C3_NamesEveryMissing ==
    /\ C3_Substitutes
    /\ (step.op = "resolve" /\ WellFormed) =>
          \A i \in Lacking : \A k \in Missing(i) :
              /\ ~ret.ok
              /\ ret.error[1].kind = "EnvVarMissing"
              /\ ret.error[1].variable = References(RawCredential(i), 1)[k]
              /\ ret.error[1].account = DeclaredItems[i].id.chars

\* C3, amended: a reference to an unset or empty variable makes the whole
\* resolve fail with no AccountsConfig returned; the error names the first such
\* reference (entries in declaration order, references left to right) and the
\* id of the account that holds it.
C3_NamesFirstMissing ==
    /\ C3_Substitutes
    /\ (step.op = "resolve" /\ WellFormed /\ Lacking # {}) =>
          /\ ~ret.ok
          /\ ret.value = Null
          /\ ret.error[1].kind = "EnvVarMissing"
          /\ ret.error[1].variable =
                References(RawCredential(FirstOf(Lacking)), 1)[FirstOf(Missing(FirstOf(Lacking)))]
          /\ ret.error[1].account = DeclaredItems[FirstOf(Lacking)].id.chars

\* a substitution happened: a credential with two references, both set
C3_WitnessSubstituted ==
    /\ Resolved
    /\ WellFormed
    /\ RawCredential(1) = <<"$", "A", "$", "B">>
    /\ ReturnedAccounts[1].githubToken # RawCredential(1)

\* a failure happened: the second account refers to an empty variable
C3_Witness ==
    /\ Failed
    /\ WellFormed
    /\ Lacking = {2}
    /\ environ[VarB] = Some(<<>>)

DistinctIds(config) ==
    \A i, j \in 1..Len(config.accounts) :
        config.accounts[i].id = config.accounts[j].id => i = j

DefaultIsMember(config) ==
    \E i \in 1..Len(config.accounts) : config.accounts[i].id = config.defaultAccountId

\* C7: every AccountsConfig that a resolve returns or that the cache holds has
\* pairwise distinct account ids, and its defaultAccountId is the id of one of
\* its accounts.
C7_UniqueIds ==
    /\ Resolved => DistinctIds(ret.value[1]) /\ DefaultIsMember(ret.value[1])
    /\ cachedConfig # Null => DistinctIds(cachedConfig[1]) /\ DefaultIsMember(cachedConfig[1])

\* every "$" of the raw credentials begins a reference, and no value of a
\* referenced variable holds a "$"
OnlyPlainReferences ==
    \A i \in 1..Len(DeclaredItems) :
        /\ \A k \in 1..Len(RawCredential(i)) :
              RawCredential(i)[k] = "$" => ENV_REF_REGEX(RawCredential(i), k).found
        /\ \A k \in 1..Len(References(RawCredential(i), 1)) :
              LET v == Getenv(environ, References(RawCredential(i), 1)[k])
              IN  v # Null => \A n \in 1..Len(v[1]) : v[1][n] # "$"

\* C8 as stated: no returned credential holds a ${NAME} or $NAME, whatever the
\* raw credential and the values of the referenced variables.
C8_NoMarker ==
    Resolved => \A i \in 1..Len(ReturnedAccounts) : ~HasMarker(ReturnedAccounts[i].githubToken)

\* C8, amended: substitution is one pass and the inserted values are not scanned
\* again; when every "$" of the raw credential begins a reference and no value
\* of a referenced variable holds a "$", the returned credential holds no
\* ${NAME} or $NAME.
C8_NoMarkerOfPlainReferences ==
    (Resolved /\ WellFormed /\ OnlyPlainReferences) =>
        \A i \in 1..Len(ReturnedAccounts) : ~HasMarker(ReturnedAccounts[i].githubToken)

C8_Witness ==
    /\ Resolved
    /\ WellFormed
    /\ OnlyPlainReferences
    /\ RawCredential(1) = <<"$", "A", "$", "B">>

----------------------------------------------------------------------------
(* Properties of the gate (SpecGate) *)

\* the last step handed a request to the gate
Handled == step.op = "request"

\* MASTER_KEY was unset or blank when the gate was configured
KeyWasBlank ==
    \/ configuredKey[1].from = Null
    \/ \A k \in 1..Len(configuredKey[1].from[1]) : configuredKey[1].from[1][k] \in WhiteSpace

\* the secret: MASTER_KEY, when the gate was configured, without the
\* whitespace around it
Secret == Trim(configuredKey[1].from[1])

\* C4: a gate configured while MASTER_KEY is unset or blank lets every request
\* through to the downstream handler and answers no 401.
C4_BlankKeyAllowsAll ==
    (Handled /\ KeyWasBlank) => response.next /\ response.status # 401

C4_Witness ==
    /\ Handled
    /\ configuredKey[1].from = Some(<<" ">>)
    /\ request.header = Some(<<"B", "e", "a", "r", "e", "r", " ", "w">>)
    /\ request.path = V1Messages

\* the header is "Bearer " in any letter case followed by the secret, with
\* optional whitespace around the secret
BearsSecret ==
    /\ request.header # Null
    /\ \E n \in 0..Len(request.header[1]) :
          /\ n = Len(BEARER_PREFIX)
          /\ Len(request.header[1]) >= n
          /\ \A k \in 1..n : ToLowerChar(request.header[1][k]) = BEARER_PREFIX[k]
          /\ Trim(SubSeq(request.header[1], n + 1, Len(request.header[1]))) = Secret

\* C5: with a non-blank secret a request reaches the downstream handler if and
\* only if its Authorization header is "Bearer " (any letter case) followed by
\* the secret after trimming; every other request is rejected.
C5_AllowsExactlyBearers ==
    (Handled /\ ~KeyWasBlank) => (response.next <=> BearsSecret)

C5_Witness ==
    /\ Handled
    /\ ~KeyWasBlank
    /\ response.next
    /\ request.header = Some(<<"b", "E", "A", "R", "E", "R", " ", " ", "s", " ">>)
    /\ configuredKey[1].from = Some(<<" ", "s", " ">>)

\* C6: every rejection is a 401 whose body the path alone chooses: the
\* Anthropic body when the path begins with /v1/messages, the OpenAI body
\* otherwise.
C6_BodyByPath ==
    (Handled /\ ~response.next) =>
        /\ response.status = 401
        /\ response.body =
              IF /\ Len(request.path) >= Len(V1Messages)
                 /\ \A k \in 1..Len(V1Messages) : request.path[k] = V1Messages[k]
              THEN AnthropicBody
              ELSE OpenAIBody

C6_Witness ==
    /\ Handled
    /\ ~response.next
    /\ request.path = V1Messages \o <<"/", "c">>
    /\ request.method = "POST"
    /\ request.header = Null
    /\ response.body = AnthropicBody

----------------------------------------------------------------------------
(* Properties of the cache (Spec) *)

\* what the source defines now: the outcome of reading and parsing the file
\* that ACCOUNTS_CONFIG selects, under the present environment
SourceDefines == ParseContents(readConfigFile(files, ConfigPath(environ)), environ)

\* C1: once a resolve has succeeded, every later resolve before a reset returns
\* the AccountsConfig of that first success without reading the file or the
\* environment, whatever they have become; a resolve with no success since the
\* last reset reads the source and returns what it defines at that moment.
C1_CachedUntilReset ==
    [][step'.op = "resolve" =>
          IF observed # {}
          THEN /\ ret'.ok
               /\ observed = {ret'.value[1]}
               /\ ~step'.read
               /\ observed' = observed
          ELSE /\ step'.read
               /\ ret' = SourceDefines]_vars

\* a call answered from the cache although the source now defines another value
C1_Witness ==
    /\ Resolved
    /\ ~step.read
    /\ SourceDefines.ok
    /\ SourceDefines # ret

\* C9: the cache is empty or holds the one AccountsConfig a successful resolve
\* produced; a resolve that throws leaves the cache empty as it was; only a
\* successful resolve fills the cache and only a reset empties it.
C9_CacheHolds == cachedConfig = Null \/ observed = {cachedConfig[1]}

C9_CacheSteps ==
    /\ (step'.op = "resolve" /\ ~ret'.ok) => (cachedConfig = Null /\ cachedConfig' = Null)
    /\ (cachedConfig = Null /\ cachedConfig' # Null) =>
          (step'.op = "resolve" /\ ret'.ok /\ cachedConfig' = ret'.value)
    /\ (cachedConfig # Null /\ cachedConfig' # cachedConfig) =>
          (step'.op = "reset" /\ cachedConfig' = Null)

\* C9: the state property in every reachable state, the step property in every
\* step.
C9_FailureLeavesCache == []C9_CacheHolds /\ [][C9_CacheSteps]_vars

\* a resolve has thrown for a missing variable and the cache is still empty
C9_Witness ==
    /\ Failed
    /\ ret.error[1].kind = "EnvVarMissing"
    /\ cachedConfig = Null

\* C10: between two resets the source is read and parsed successfully at most
\* once, and every call that returns, from whichever caller, returns the same
\* AccountsConfig.
C10_SinglePopulation ==
    /\ parses <= 1
    /\ Cardinality(observed) <= 1
    /\ Resolved => observed = {ret.value[1]}
    /\ (cachedConfig # Null) => (parses = 1)

\* checkUsage.run was answered from the cache that runServer filled, after the
\* file had become unreadable as a document
C10_Witness ==
    /\ Resolved
    /\ ~step.read
    /\ pc.runServer = "awaiting"
    /\ pc.checkUsage = "idle"
    /\ parses = 1
    /\ ~SourceDefines.ok

====
